---- MODULE Spec2Model ----
(***************************************************************************)
(* Model of the Luno API client (src/index.js): the Luno class, its        *)
(* per-endpoint methods, the request executor createRequest and the form   *)
(* encoder jsonToURLEncodedForm, together with the transport (node-fetch)  *)
(* seen through the four response fields the executor reads.               *)
(*                                                                         *)
(* Strings are sequences of atoms.  An atom is either one reserved         *)
(* character ("&", "=", "%", " ", ":", "/", "?", "!", "@") or a run of     *)
(* unreserved characters ("XBTZAR", "1", "-100").  JavaScript values are   *)
(* tagged records: undefined, string, number, Date.                        *)
(***************************************************************************)
EXTENDS Integers, Sequences, FiniteSets, TLC

VARIABLES cfg, headers, url, defaultPair, ncalls, nfetch, last, promise

vars == <<cfg, headers, url, defaultPair, ncalls, nfetch, last, promise>>

(* ------------------------------ bounds --------------------------------- *)
MaxCalls == 2

(* --------------------------- JavaScript values ------------------------- *)
Undef == [t |-> "undef"]
Str(s) == [t |-> "str", s |-> s]
\* a number is kept in thousandths, so that getTime() / 1000 stays exact
Num(m) == [t |-> "num", m |-> m]
DateV(ms) == [t |-> "date", ms |-> ms]

S(a) == Str(<<a>>)
Empty == Str(<<>>)

\* JavaScript truthiness, as used by assert(x), x || y and if (x)
Truthy(v) ==
  CASE v.t = "undef" -> FALSE
    [] v.t = "str" -> v.s # <<>>
    [] v.t = "num" -> v.m # 0
    [] OTHER -> TRUE

\* a default parameter value applies when the argument is undefined
Default(v, d) == IF v.t = "undef" THEN d ELSE v

\* a || b
Or(a, b) == IF Truthy(a) THEN a ELSE b

\* the fractional digits of a number kept in thousandths, trailing zeros cut
FracDigits(f) ==
  LET d1 == f \div 100
      d2 == (f \div 10) % 10
      d3 == f % 10
  IN  IF d3 # 0 THEN <<ToString(d1), ToString(d2), ToString(d3)>>
      ELSE IF d2 # 0 THEN <<ToString(d1), ToString(d2)>>
      ELSE <<ToString(d1)>>

\* Number.prototype.toString for the numbers of the model
NumToString(m) ==
  LET a == IF m < 0 THEN 0 - m ELSE m
  IN  (IF m < 0 THEN <<"-">> ELSE <<>>)
      \o <<ToString(a \div 1000)>>
      \o (IF a % 1000 = 0 THEN <<>> ELSE <<".">> \o FracDigits(a % 1000))

\* String(v): the coercion done by template literals and encodeURIComponent
ToStr(v) ==
  CASE v.t = "undef" -> <<"undefined">>
    [] v.t = "str" -> v.s
    [] v.t = "num" -> NumToString(v.m)
    [] OTHER -> <<"Date", ToString(v.ms)>>

\* String.prototype.toUpperCase on one atom
UpperAtom(a) ==
  CASE a \in {"bid", "Bid", "BID"} -> "BID"
    [] a \in {"ask", "Ask", "ASK"} -> "ASK"
    [] a \in {"buy", "Buy", "BUY"} -> "BUY"
    [] a \in {"sell", "Sell", "SELL"} -> "SELL"
    [] a \in {"xyz", "XYZ"} -> "XYZ"
    [] a \in {"delete", "DELETE"} -> "DELETE"
    [] a \in {"put", "PUT"} -> "PUT"
    [] a \in {"get", "GET"} -> "GET"
    [] a \in {"post", "POST"} -> "POST"
    [] OTHER -> a

toUpperCase(s) == [i \in 1..Len(s) |-> UpperAtom(s[i])]

(* ----------------------------- encoders -------------------------------- *)
\* percent-encoding of the reserved characters of the model's alphabet
PercentAtom(a) ==
  CASE a = "&" -> <<"%", "2", "6">>
    [] a = "=" -> <<"%", "3", "D">>
    [] a = "%" -> <<"%", "2", "5">>
    [] a = " " -> <<"%", "2", "0">>
    [] a = ":" -> <<"%", "3", "A">>
    [] a = "/" -> <<"%", "2", "F">>
    [] a = "?" -> <<"%", "3", "F">>
    [] a = "!" -> <<"%", "2", "1">>
    [] a = "@" -> <<"%", "4", "0">>
    [] OTHER -> <<a>>

RECURSIVE encodeURIComponent(_)
\* encodeURIComponent leaves A-Z a-z 0-9 - _ . ! ~ * ' ( ) alone
encodeURIComponent(s) ==
  IF s = <<>> THEN <<>>
  ELSE (IF Head(s) = "!" THEN <<"!">> ELSE PercentAtom(Head(s)))
       \o encodeURIComponent(Tail(s))

RECURSIVE qsEncode(_)
\* qs utils.encode leaves only A-Z a-z 0-9 - . _ ~ alone
qsEncode(s) ==
  IF s = <<>> THEN <<>> ELSE PercentAtom(Head(s)) \o qsEncode(Tail(s))

\* JavaScript objects used as query / data: absent, or an ordered list of
\* <<key, value>> entries
NoObj == [has |-> FALSE, kv |-> <<>>]
Obj(kv) == [has |-> TRUE, kv |-> kv]

RECURSIVE Join(_, _)
\* Array.prototype.join
Join(parts, sep) ==
  IF parts = <<>> THEN <<>>
  ELSE IF Len(parts) = 1 THEN parts[1]
  ELSE parts[1] \o <<sep>> \o Join(Tail(parts), sep)

RECURSIVE qsParts(_)
\* qs.stringify: keys whose value is undefined are skipped
qsParts(kv) ==
  IF kv = <<>> THEN <<>>
  ELSE LET k == kv[1][1]
           v == kv[1][2]
       IN  (IF v.t = "undef" THEN <<>>
            ELSE <<qsEncode(k) \o <<"=">> \o qsEncode(ToStr(v))>>)
           \o qsParts(Tail(kv))

\* a serializer that writes undefined values out instead of skipping them
qsStringify_keepsUndefined(kv) ==
  Join([i \in 1..Len(kv) |->
          qsEncode(kv[i][1]) \o <<"=">> \o qsEncode(ToStr(kv[i][2]))], "&")

qsStringify(kv) == Join(qsParts(kv), "&")

\* an encoder that writes the values as they are
jsonToURLEncodedForm_rawValues(kv) ==
  Join([i \in 1..Len(kv) |->
          encodeURIComponent(kv[i][1]) \o <<"=">> \o ToStr(kv[i][2])], "&")

jsonToURLEncodedForm(kv) ==
  Join([i \in 1..Len(kv) |->
          encodeURIComponent(kv[i][1]) \o <<"=">>
            \o encodeURIComponent(ToStr(kv[i][2]))], "&")

(* ------------------------------ base64 --------------------------------- *)
B64Chars ==
  <<"A", "B", "C", "D", "E", "F", "G", "H", "I", "J", "K", "L", "M",
    "N", "O", "P", "Q", "R", "S", "T", "U", "V", "W", "X", "Y", "Z",
    "a", "b", "c", "d", "e", "f", "g", "h", "i", "j", "k", "l", "m",
    "n", "o", "p", "q", "r", "s", "t", "u", "v", "w", "x", "y", "z",
    "0", "1", "2", "3", "4", "5", "6", "7", "8", "9", "+", "/">>

\* character code of the one-character atoms credentials are made of
CharCode(a) ==
  CASE a = ":" -> 58
    [] a = "k" -> 107
    [] a = "s" -> 115
    [] a = "1" -> 49
    [] a = "K" -> 75
    [] OTHER -> 63

RECURSIVE b64Groups(_)
\* base64.encode on a sequence of character codes, three at a time
b64Groups(b) ==
  IF b = <<>> THEN <<>>
  ELSE IF Len(b) = 1 THEN
    <<B64Chars[(b[1] \div 4) + 1], B64Chars[((b[1] % 4) * 16) + 1], "=", "=">>
  ELSE IF Len(b) = 2 THEN
    <<B64Chars[(b[1] \div 4) + 1],
      B64Chars[((b[1] % 4) * 16 + (b[2] \div 16)) + 1],
      B64Chars[((b[2] % 16) * 4) + 1], "=">>
  ELSE
    <<B64Chars[(b[1] \div 4) + 1],
      B64Chars[((b[1] % 4) * 16 + (b[2] \div 16)) + 1],
      B64Chars[((b[2] % 16) * 4 + (b[3] \div 64)) + 1],
      B64Chars[(b[3] % 64) + 1]>>
    \o b64Groups(SubSeq(b, 4, Len(b)))

base64encode(s) == b64Groups([i \in 1..Len(s) |-> CharCode(s[i])])

(* ---------------------------- constructor ------------------------------ *)
BASE_URL == <<"https://api.mybitx.com/api">>

\* the Authorization header attached as soon as a key is given
constructorHeaders_keyOnly(key, secret) ==
  LET base == ("Accept" :> <<"application/json">>)
              @@ ("Accept-Charset" :> <<"utf-8">>)
  IN  IF Truthy(key)
        THEN base @@ ("Authorization" :>
               (<<"Basic", " ">> \o base64encode(key.s \o <<":">> \o ToStr(secret))))
        ELSE base

\* this.headers as built by the constructor
constructorHeaders(key, secret) ==
  LET base == ("Accept" :> <<"application/json">>)
              @@ ("Accept-Charset" :> <<"utf-8">>)
  IN  IF Truthy(key) /\ Truthy(secret)
        THEN base @@ ("Authorization" :>
               (<<"Basic", " ">> \o base64encode(key.s \o <<":">> \o secret.s)))
        ELSE base

\* this.url
constructorUrl(version) == BASE_URL \o <<"/">> \o ToStr(Default(version, S("1")))

\* this.defaultPair
constructorDefaultPair(dp) == Or(dp, S("XBTZAR"))

\* the options objects the client is constructed with
Configs ==
  { [key |-> Undef, secret |-> Undef, defaultPair |-> Undef, version |-> Undef],
    [key |-> Str(<<"k", "1">>), secret |-> Empty, defaultPair |-> Empty, version |-> Undef],
    [key |-> Str(<<"K">>), secret |-> Str(<<"s", "1">>), defaultPair |-> S("ETHZAR"), version |-> S("2")] }

(* ------------------------- request executor ---------------------------- *)
\* what a method hands to createRequest, or the assertion it failed
Throw(msg) ==
  [threw |-> TRUE, msg |-> msg, url |-> <<>>, query |-> NoObj, data |-> NoObj,
   method |-> Undef]
Request(u, q, d, m) ==
  [threw |-> FALSE, msg |-> "", url |-> u, query |-> q, data |-> d, method |-> m]

\* a body deciding the verb before an explicit one is looked at
optsMethod_bodyFirst(desc) ==
  IF desc.data.has THEN <<"POST">>
  ELSE IF Truthy(desc.method) THEN toUpperCase(ToStr(desc.method))
  ELSE <<"GET">>

\* opts.method
optsMethod(desc) ==
  IF Truthy(desc.method) THEN toUpperCase(ToStr(desc.method))
  ELSE IF desc.data.has THEN <<"POST">> ELSE <<"GET">>

\* opts.headers is the object passed in; a body adds Content-Type to it
optsHeaders(h, desc) ==
  IF desc.data.has
    THEN ("Content-Type" :> <<"application/x-www-form-urlencoded;charset=UTF-8">>) @@ h
    ELSE h

\* opts.body
optsBody(desc) ==
  IF desc.data.has THEN [has |-> TRUE, s |-> jsonToURLEncodedForm(desc.data.kv)]
  ELSE [has |-> FALSE, s |-> <<>>]

\* the URL given to fetch
fetchUrl(desc) ==
  desc.url \o (IF desc.query.has THEN <<"?">> \o qsStringify(desc.query.kv) ELSE <<>>)

NoReq == [method |-> <<>>, url |-> <<>>, headers |-> <<>>, body |-> [has |-> FALSE, s |-> <<>>]]

(* ------------------------------ promises ------------------------------- *)
NoOut == [kind |-> "none", message |-> <<>>, status |-> Undef, v |-> ""]
NoPromise ==
  [st |-> "none", status |-> 0, statusText |-> <<>>, jsonCalls |-> 0,
   jsonVal |-> "", fetchErr |-> "", out |-> NoOut]
Pending == [NoPromise EXCEPT !.st = "pending"]

\* new Error(message)
NewError(message) == [kind |-> "Error", message |-> message, status |-> Undef, v |-> ""]

\* the responses the transport may deliver
Responses ==
  { [status |-> 200, statusText |-> <<"OK">>],
    [status |-> 401, statusText |-> <<"Unauthorized">>] }
JsonValues == {"j1", "j2"}
TransportErrors == {"ECONNREFUSED"}

\* res.ok
ResOk(status) == status >= 200 /\ status <= 299

\* an error carrying the status text alone
responseError_textOnly(status, statusText) == NewError(statusText)

\* the error a non-ok response is turned into
responseError(status, statusText) ==
  NewError(<<ToString(status)>> \o <<":", " ">> \o statusText)

\* the parsed value wrapped before it is returned
jsonResolved_wrapped(v) ==
  [kind |-> "value", message |-> <<>>, status |-> Undef, v |-> "wrapped"]

\* the value the returned promise takes when res.json() yields v
jsonResolved(v) == [kind |-> "value", message |-> <<>>, status |-> Undef, v |-> v]

\* the rejection of the returned promise when res.json() rejects
jsonFailed ==
  [kind |-> "SyntaxError", message |-> <<"invalid json">>, status |-> Undef, v |-> ""]

\* a transport error turned into the shape of an HTTP failure
transportOutcome_wrapped(e) == NewError(<<"0", ":", " ", e>>)

\* the rejection of the returned promise when fetch rejects with e: there is
\* no rejection handler, the error is passed on as it is
transportOutcome(e) ==
  [kind |-> "FetchError", message |-> <<e>>, status |-> Undef, v |-> ""]

\* a method call: either the assertion fails, or createRequest runs to its
\* fetch call and returns the promise
Invoke(op, args, res) ==
  /\ ncalls < MaxCalls
  /\ ncalls' = ncalls + 1
  /\ IF res.threw
       THEN /\ last' = [op |-> op, args |-> args, threw |-> TRUE, msg |-> res.msg,
                        desc |-> res, sent |-> FALSE, req |-> NoReq, id |-> 0]
            /\ UNCHANGED <<headers, nfetch, promise>>
       ELSE /\ headers' = optsHeaders(headers, res)
            /\ nfetch' = nfetch + 1
            /\ promise' = [promise EXCEPT ![ncalls + 1] = Pending]
            /\ last' = [op |-> op, args |-> args, threw |-> FALSE, msg |-> "",
                        desc |-> res, sent |-> TRUE,
                        req |-> [method |-> optsMethod(res),
                                 url |-> fetchUrl(res),
                                 headers |-> headers',
                                 body |-> optsBody(res)],
                        id |-> ncalls + 1]
  /\ UNCHANGED <<cfg, url, defaultPair>>

(* ------------------------------- methods ------------------------------- *)
\* one entry of an object literal
K(k, v) == <<(<<k>>), v>>

\* the argument values the methods are called with
PairArgs == {Undef, Empty, S("XBTMYR")}
IdArgs == {Undef, Empty, S("17")}
SinceArgs == {Undef, Num(7000), DateV(1500)}

getTicker(pair) ==
  LET p == Or(Default(pair, Empty), defaultPair)
  IN  Request(url \o <<"/ticker">>, Obj(<<K("pair", p)>>), NoObj, Undef)

GetTicker == \E pair \in PairArgs \cup {Str(<<"X", "&", "Y">>)} :
  Invoke("getTicker", [pair |-> pair], getTicker(pair))

getAllTickers == Request(url \o <<"/tickers">>, NoObj, NoObj, Undef)

GetAllTickers == Invoke("getAllTickers", <<>>, getAllTickers)

getOrderBook(pair) ==
  LET p == Or(Default(pair, Empty), defaultPair)
  IN  Request(url \o <<"/orderbook">>, Obj(<<K("pair", p)>>), NoObj, Undef)

GetOrderBook == \E pair \in {Undef, S("XBTMYR")} :
  Invoke("getOrderBook", [pair |-> pair], getOrderBook(pair))

getTrades(since, pair) ==
  LET p == Or(Default(pair, Empty), defaultPair)
      s == IF Truthy(since) /\ since.t = "date" THEN Num(since.ms) ELSE since
  IN  Request(url \o <<"/trades">>, Obj(<<K("pair", p), K("since", s)>>), NoObj, Undef)

GetTrades == \E since \in SinceArgs, pair \in {Undef, S("XBTMYR")} :
  Invoke("getTrades", [since |-> since, pair |-> pair], getTrades(since, pair))

createAccount(name, currency) ==
  LET n == Default(name, Empty)
      c == Default(currency, Empty)
  IN  IF ~Truthy(n) THEN Throw("Luno:createAccount - name is required")
      ELSE IF ~Truthy(c) THEN Throw("Luno:createAccount - currency is required")
      ELSE Request(url \o <<"/accounts">>, NoObj,
                   Obj(<<K("currency", c), K("name", n)>>), Undef)

CreateAccount ==
  \E name \in {Undef, Empty, Str(<<"Trading", " ", "ACC">>)}, currency \in {Undef, S("XBT")} :
    Invoke("createAccount", [name |-> name, currency |-> currency],
           createAccount(name, currency))

getBalances == Request(url \o <<"/balance">>, NoObj, NoObj, Undef)

GetBalances == Invoke("getBalances", <<>>, getBalances)

getTransactions(id, minRow, maxRow) ==
  LET i == Default(id, Empty)
      lo == Default(minRow, Num(-100000))
      hi == Default(maxRow, Num(0))
  IN  IF ~Truthy(i) THEN Throw("Luno:getTransactions - account ID is required")
      ELSE Request(url \o <<"/accounts/">> \o ToStr(i) \o <<"/transactions">>,
                   Obj(<<K("min_row", lo), K("max_row", hi)>>), NoObj, Undef)

GetTransactions ==
  \E id \in {Undef, S("17"), Num(0)}, minRow \in {Undef, Num(1000)}, maxRow \in {Undef} :
    Invoke("getTransactions", [id |-> id, minRow |-> minRow, maxRow |-> maxRow],
           getTransactions(id, minRow, maxRow))

getPendingTransactions(id) ==
  LET i == Default(id, Empty)
  IN  IF ~Truthy(i) THEN Throw("Luno:getPendingTransactions - account ID is required")
      ELSE Request(url \o <<"/accounts/">> \o ToStr(i) \o <<"/pending">>,
                   NoObj, NoObj, Undef)

GetPendingTransactions == \E id \in IdArgs :
  Invoke("getPendingTransactions", [id |-> id], getPendingTransactions(id))

getOrderList(state, pair) ==
  Request(url \o <<"/listorders">>, Obj(<<K("state", state), K("pair", pair)>>),
          NoObj, Undef)

GetOrderList == \E state \in {Undef, S("PENDING")}, pair \in PairArgs :
  Invoke("getOrderList", [state |-> state, pair |-> pair], getOrderList(state, pair))

\* postOrder validating the type as given, without upper-casing it
postOrder_noUpperCase(type, volume, price, pair) ==
  LET ty == Default(type, Empty)
      vol == Default(volume, Empty)
      pr == Default(price, Empty)
      p == Or(Default(pair, Empty), defaultPair)
  IN  IF ~(ty = S("BID") \/ ty = S("ASK"))
        THEN Throw("Luno:postOrder - type should be BID or ASK")
      ELSE IF ~Truthy(vol) THEN Throw("Luno:postOrder - volume is required")
      ELSE IF ~Truthy(pr) THEN Throw("Luno:postOrder - price is required")
      ELSE Request(url \o <<"/postorder">>, NoObj,
                   Obj(<<K("type", ty), K("volume", vol), K("price", pr), K("pair", p)>>),
                   Undef)

postOrder(type, volume, price, pair) ==
  LET t0 == Default(type, Empty)
      ty == IF t0.t = "str" THEN Str(toUpperCase(t0.s)) ELSE t0
      vol == Default(volume, Empty)
      pr == Default(price, Empty)
      p == Or(Default(pair, Empty), defaultPair)
  IN  IF t0.t # "str" THEN Throw("Luno:postOrder - type should be a string")
      ELSE IF ~(ty = S("BID") \/ ty = S("ASK"))
        THEN Throw("Luno:postOrder - type should be BID or ASK")
      ELSE IF ~Truthy(vol) THEN Throw("Luno:postOrder - volume is required")
      ELSE IF ~Truthy(pr) THEN Throw("Luno:postOrder - price is required")
      ELSE Request(url \o <<"/postorder">>, NoObj,
                   Obj(<<K("type", ty), K("volume", vol), K("price", pr), K("pair", p)>>),
                   Undef)

\* <<type, volume, price, pair>>
PostOrderArgs ==
  ({Undef, S("bid"), S("BID"), S("Ask"), S("xyz"), Num(1000)}
     \X {S("1.5")} \X {Num(1200000)} \X {Undef})
  \cup ({S("bid")} \X {Undef, S("1.5")} \X {Empty, Num(1200000)} \X {S("XBTMYR")})

PostOrder ==
  \E a \in PostOrderArgs :
   LET type == a[1]  volume == a[2]  price == a[3]  pair == a[4] IN
    Invoke("postOrder", [type |-> type, volume |-> volume, price |-> price, pair |-> pair],
           postOrder(type, volume, price, pair))

\* postMarketOrder filling both volume fields
postMarketOrder_bothVolumes(type, volume, pair) ==
  LET t0 == Default(type, Empty)
      ty == IF t0.t = "str" THEN Str(toUpperCase(t0.s)) ELSE t0
      vol == Default(volume, Empty)
      p == Or(pair, defaultPair)
  IN  IF t0.t # "str" THEN Throw("Luno:postMarketOrder - type should be a string")
      ELSE IF ~(ty = S("BUY") \/ ty = S("SELL"))
        THEN Throw("Luno:postMarketOrder - type should be BUY or SELL")
      ELSE IF ~Truthy(vol) THEN Throw("Luno:postMarketOrder - volume is required")
      ELSE Request(url \o <<"/marketorder">>, NoObj,
                   Obj(<<K("type", ty), K("pair", p),
                         K("counter_volume", vol), K("base_volume", vol)>>),
                   Undef)

postMarketOrder(type, volume, pair) ==
  LET t0 == Default(type, Empty)
      ty == IF t0.t = "str" THEN Str(toUpperCase(t0.s)) ELSE t0
      vol == Default(volume, Empty)
      p == Or(pair, defaultPair)
  IN  IF t0.t # "str" THEN Throw("Luno:postMarketOrder - type should be a string")
      ELSE IF ~(ty = S("BUY") \/ ty = S("SELL"))
        THEN Throw("Luno:postMarketOrder - type should be BUY or SELL")
      ELSE IF ~Truthy(vol) THEN Throw("Luno:postMarketOrder - volume is required")
      ELSE Request(url \o <<"/marketorder">>, NoObj,
                   Obj(<<K("type", ty), K("pair", p)>>
                       \o (IF ty = S("BUY") THEN <<K("counter_volume", vol)>>
                           ELSE <<K("base_volume", vol)>>)),
                   Undef)

\* <<type, volume, pair>>
PostMarketOrderArgs ==
  ({Undef, S("buy"), S("Sell"), S("bid")} \X {S("1.5")} \X {Undef})
  \cup ({S("SELL")} \X {Undef, S("1.5")} \X {S("XBTMYR")})

PostMarketOrder ==
  \E a \in PostMarketOrderArgs :
   LET type == a[1]  volume == a[2]  pair == a[3] IN
    Invoke("postMarketOrder", [type |-> type, volume |-> volume, pair |-> pair],
           postMarketOrder(type, volume, pair))

stopOrder(id) ==
  LET i == Default(id, Empty)
  IN  IF ~Truthy(i) THEN Throw("Luno:stopOrder - order ID is required")
      ELSE Request(url \o <<"/stoporder">>, NoObj, Obj(<<K("order_id", i)>>), Undef)

StopOrder == \E id \in IdArgs : Invoke("stopOrder", [id |-> id], stopOrder(id))

getOrder(id) ==
  LET i == Default(id, Empty)
  IN  IF ~Truthy(i) THEN Throw("Luno:getOrder - order ID is required")
      ELSE Request(url \o <<"/orders/">> \o ToStr(i), NoObj, NoObj, Undef)

GetOrder == \E id \in IdArgs : Invoke("getOrder", [id |-> id], getOrder(id))

\* getTradesList converting a Date to seconds, as getTrades does
getTradesList_seconds(since, limit, pair) ==
  LET s == IF Truthy(since) /\ since.t = "date" THEN Num(since.ms) ELSE since
      p == Or(pair, defaultPair)
  IN  Request(url \o <<"/listtrades">>,
              Obj(<<K("pair", p), K("since", s), K("limit", limit)>>), NoObj, Undef)

getTradesList(since, limit, pair) ==
  LET s == IF Truthy(since) /\ since.t = "date" THEN Num(since.ms * 1000) ELSE since
      p == Or(pair, defaultPair)
  IN  Request(url \o <<"/listtrades">>,
              Obj(<<K("pair", p), K("since", s), K("limit", limit)>>), NoObj, Undef)

\* <<since, limit, pair>>
GetTradesListArgs ==
  (SinceArgs \X {Undef} \X {Undef, Empty})
  \cup ({Undef, DateV(1500)} \X {Num(50000)} \X {S("XBTMYR")})

GetTradesList ==
  \E a \in GetTradesListArgs :
   LET since == a[1]  limit == a[2]  pair == a[3] IN
    Invoke("getTradesList", [since |-> since, limit |-> limit, pair |-> pair],
           getTradesList(since, limit, pair))

getReceiveAddress(asset, address) ==
  LET a == Default(asset, Empty)
  IN  IF ~Truthy(a) THEN Throw("Luno:getReceiveAddress - asset is required")
      ELSE Request(url \o <<"/funding_address">>,
                   Obj(<<K("asset", a), K("address", address)>>), NoObj, Undef)

GetReceiveAddress ==
  \E asset \in {Undef, Empty, S("XBT")}, address \in {Undef, S("1abc")} :
    Invoke("getReceiveAddress", [asset |-> asset, address |-> address],
           getReceiveAddress(asset, address))

createReceiveAddress(asset) ==
  LET a == Default(asset, Empty)
  IN  IF ~Truthy(a) THEN Throw("Luno:createReceiveAddress - asset is required")
      ELSE Request(url \o <<"/funding_address">>, NoObj, Obj(<<K("asset", a)>>), Undef)

CreateReceiveAddress == \E asset \in {Undef, S("XBT")} :
  Invoke("createReceiveAddress", [asset |-> asset], createReceiveAddress(asset))

\* getFeeInfo passing the pair argument on without the default
getFeeInfo_noDefault(pair) ==
  Request(url \o <<"/fee_info">>, Obj(<<K("pair", Default(pair, Empty))>>), NoObj, Undef)

getFeeInfo(pair) ==
  LET p == Or(Default(pair, Empty), defaultPair)
  IN  Request(url \o <<"/fee_info">>, Obj(<<K("pair", p)>>), NoObj, Undef)

GetFeeInfo == \E pair \in PairArgs :
  Invoke("getFeeInfo", [pair |-> pair], getFeeInfo(pair))

getWithdrawalRequests == Request(url \o <<"/withdrawals">>, NoObj, NoObj, Undef)

GetWithdrawalRequests == Invoke("getWithdrawalRequests", <<>>, getWithdrawalRequests)

\* requestWithdrawal attaching beneficiary_id whether or not one was given
requestWithdrawal_alwaysBeneficiary(type, amount, beneficiaryId) ==
  LET ty == Default(type, Empty)
  IN  IF ~Truthy(ty) THEN Throw("Luno:requestWithdrawal - type is required")
      ELSE IF ~Truthy(amount) THEN Throw("Luno:requestWithdrawal - amount is required")
      ELSE Request(url \o <<"/withdrawals">>, NoObj,
                   Obj(<<K("type", ty), K("amount", amount),
                         K("beneficiary_id", beneficiaryId)>>),
                   Undef)

requestWithdrawal(type, amount, beneficiaryId) ==
  LET ty == Default(type, Empty)
  IN  IF ~Truthy(ty) THEN Throw("Luno:requestWithdrawal - type is required")
      ELSE IF ~Truthy(amount) THEN Throw("Luno:requestWithdrawal - amount is required")
      ELSE Request(url \o <<"/withdrawals">>, NoObj,
                   Obj(<<K("type", ty), K("amount", amount)>>
                       \o (IF Truthy(beneficiaryId)
                             THEN <<K("beneficiary_id", beneficiaryId)>> ELSE <<>>)),
                   Undef)

\* <<type, amount, beneficiaryId>>
RequestWithdrawalArgs ==
  ({Undef, Empty, S("ZAR_EFT")} \X {Num(1000000)} \X {Undef})
  \cup ({S("ZAR_EFT")} \X {Undef, Num(0), S("1000")} \X {Empty, S("b1")})

RequestWithdrawal ==
  \E a \in RequestWithdrawalArgs :
   LET type == a[1]  amount == a[2]  beneficiaryId == a[3] IN
    Invoke("requestWithdrawal",
           [type |-> type, amount |-> amount, beneficiaryId |-> beneficiaryId],
           requestWithdrawal(type, amount, beneficiaryId))

getWithdrawalStatus(id) ==
  IF ~Truthy(id) THEN Throw("Luno:getWithdrawalStatus - id is required")
  ELSE Request(url \o <<"/withdrawals/">> \o ToStr(id), NoObj, NoObj, Undef)

GetWithdrawalStatus == \E id \in IdArgs :
  Invoke("getWithdrawalStatus", [id |-> id], getWithdrawalStatus(id))

cancelWithdrawalRequest(id) ==
  IF ~Truthy(id) THEN Throw("Luno:cancelWithdrawalRequest - id is required")
  ELSE Request(url \o <<"/withdrawals/">> \o ToStr(id), NoObj, NoObj, S("DELETE"))

CancelWithdrawalRequest == \E id \in IdArgs :
  Invoke("cancelWithdrawalRequest", [id |-> id], cancelWithdrawalRequest(id))

\* send without the check of the address
send_noAddressCheck(amount, currency, address, description, message) ==
  LET am == Default(amount, Empty)
      cu == Default(currency, Empty)
      ad == Default(address, Empty)
  IN  IF ~Truthy(am) THEN Throw("Luno:send - amount is required")
      ELSE IF ~Truthy(cu) THEN Throw("Luno:send - currency is required")
      ELSE Request(url \o <<"/send">>, NoObj,
                   Obj(<<K("amount", am), K("currency", cu), K("address", ad)>>
                       \o (IF Truthy(description)
                             THEN <<K("description", description)>> ELSE <<>>)
                       \o (IF Truthy(message) THEN <<K("message", message)>> ELSE <<>>)),
                   Undef)

send(amount, currency, address, description, message) ==
  LET am == Default(amount, Empty)
      cu == Default(currency, Empty)
      ad == Default(address, Empty)
  IN  IF ~Truthy(am) THEN Throw("Luno:send - amount is required")
      ELSE IF ~Truthy(cu) THEN Throw("Luno:send - currency is required")
      ELSE IF ~Truthy(ad) THEN Throw("Luno:send - address is required")
      ELSE Request(url \o <<"/send">>, NoObj,
                   Obj(<<K("amount", am), K("currency", cu), K("address", ad)>>
                       \o (IF Truthy(description)
                             THEN <<K("description", description)>> ELSE <<>>)
                       \o (IF Truthy(message) THEN <<K("message", message)>> ELSE <<>>)),
                   Undef)

\* <<amount, currency, address, description, message>>
SendArgs ==
  ({Num(1000000)} \X {S("XBT")} \X {Str(<<"foo", "@", "bar.com">>)}
     \X {Undef, Empty, S("memo")} \X {Undef, Str(<<"a", " ", "b">>)})
  \cup ({Undef, S("1.5")} \X {Empty, S("XBT")} \X {Undef, S("1abc")}
         \X {S("memo")} \X {Undef})

Send ==
  \E a \in SendArgs :
   LET amount == a[1]  currency == a[2]  address == a[3]
       description == a[4]  message == a[5] IN
    Invoke("send",
           [amount |-> amount, currency |-> currency, address |-> address,
            description |-> description, message |-> message],
           send(amount, currency, address, description, message))

createQuote(type, amount, pair) ==
  LET t0 == Default(type, Empty)
      ty == IF t0.t = "str" THEN Str(toUpperCase(t0.s)) ELSE t0
      am == Default(amount, Empty)
      p == Or(Default(pair, Empty), defaultPair)
  IN  IF t0.t # "str" THEN Throw("Luno:createQuote - type should be a string")
      ELSE IF ~(ty = S("BUY") \/ ty = S("SELL"))
        THEN Throw("Luno:createQuote - type should be BUY or SELL")
      ELSE IF ~Truthy(am) THEN Throw("Luno:createQuote - amount is required")
      ELSE Request(url \o <<"/quotes">>, NoObj,
                   Obj(<<K("type", ty), K("base_amount", am), K("pair", p)>>), Undef)

\* <<type, amount, pair>>
CreateQuoteArgs ==
  ({Undef, S("buy"), S("SELL"), S("ask"), Num(1000)} \X {Num(1000000)} \X {Undef})
  \cup ({S("Buy")} \X {Undef, Num(0), S("10")} \X {Empty, S("XBTMYR")})

CreateQuote ==
  \E a \in CreateQuoteArgs :
   LET type == a[1]  amount == a[2]  pair == a[3] IN
    Invoke("createQuote", [type |-> type, amount |-> amount, pair |-> pair],
           createQuote(type, amount, pair))

getQuote(id) ==
  LET i == Default(id, Empty)
  IN  IF ~Truthy(i) THEN Throw("Luno:getQuote - quote ID is required")
      ELSE Request(url \o <<"/quotes/">> \o ToStr(i), NoObj, NoObj, Undef)

GetQuote == \E id \in IdArgs : Invoke("getQuote", [id |-> id], getQuote(id))

exerciseQuote(id) ==
  LET i == Default(id, Empty)
  IN  IF ~Truthy(i) THEN Throw("Luno:exerciseQuote - quote ID is required")
      ELSE Request(url \o <<"/quotes/">> \o ToStr(i), NoObj, NoObj, S("PUT"))

ExerciseQuote == \E id \in IdArgs :
  Invoke("exerciseQuote", [id |-> id], exerciseQuote(id))

discardQuote(id) ==
  LET i == Default(id, Empty)
  IN  IF ~Truthy(i) THEN Throw("Luno:discardQuote - quote ID is required")
      ELSE Request(url \o <<"/quotes/">> \o ToStr(i), NoObj, NoObj, S("DELETE"))

DiscardQuote == \E id \in IdArgs :
  Invoke("discardQuote", [id |-> id], discardQuote(id))

(* ------------------------------ transport ------------------------------ *)
\* the then-callback of createRequest, run when fetch resolves
OnResponse(i) == \E r \in Responses :
  /\ promise[i].st = "pending"
  /\ promise' = [promise EXCEPT ![i] =
       IF ResOk(r.status)
         THEN [@ EXCEPT !.st = "parsing", !.status = r.status,
                        !.statusText = r.statusText, !.jsonCalls = @ + 1]
         ELSE [@ EXCEPT !.st = "rejected", !.status = r.status,
                        !.statusText = r.statusText,
                        !.out = responseError(r.status, r.statusText)]]
  /\ UNCHANGED <<cfg, headers, url, defaultPair, ncalls, nfetch, last>>

\* a promise that a second result of res.json() settles over again
OnJson_settlesAgain(i) ==
  /\ promise[i].st \in {"parsing", "resolved"}
  /\ \/ \E v \in JsonValues :
          promise' = [promise EXCEPT ![i] =
            [@ EXCEPT !.st = "resolved", !.jsonVal = v,
                      !.out = jsonResolved(v)]]
     \/ promise' = [promise EXCEPT ![i] =
            [@ EXCEPT !.st = "rejected", !.out = jsonFailed]]
  /\ UNCHANGED <<cfg, headers, url, defaultPair, ncalls, nfetch, last>>

\* res.json() settles: the returned promise follows it
OnJson(i) ==
  /\ promise[i].st = "parsing"
  /\ \/ \E v \in JsonValues :
          promise' = [promise EXCEPT ![i] =
            [@ EXCEPT !.st = "resolved", !.jsonVal = v,
                      !.out = jsonResolved(v)]]
     \/ promise' = [promise EXCEPT ![i] =
            [@ EXCEPT !.st = "rejected", !.out = jsonFailed]]
  /\ UNCHANGED <<cfg, headers, url, defaultPair, ncalls, nfetch, last>>

\* a failed fetch answered by fetching again
OnTransportError_retries(i) == \E e \in TransportErrors :
  /\ promise[i].st = "pending"
  /\ promise[i].fetchErr = ""
  /\ promise' = [promise EXCEPT ![i] = [@ EXCEPT !.fetchErr = e]]
  /\ nfetch' = nfetch + 1
  /\ UNCHANGED <<cfg, headers, url, defaultPair, ncalls, last>>

\* fetch rejects: no then-handler for rejection, the error passes through
OnTransportError(i) == \E e \in TransportErrors :
  /\ promise[i].st = "pending"
  /\ promise' = [promise EXCEPT ![i] =
       [@ EXCEPT !.st = "rejected", !.fetchErr = e, !.out = transportOutcome(e)]]
  /\ UNCHANGED <<cfg, headers, url, defaultPair, ncalls, nfetch, last>>

(* ---------------------------- specification ---------------------------- *)
NoCall ==
  [op |-> "", args |-> <<>>, threw |-> FALSE, msg |-> "", desc |-> Throw(""),
   sent |-> FALSE, req |-> NoReq, id |-> 0]

Init ==
  /\ cfg \in Configs
  /\ headers = constructorHeaders(cfg.key, cfg.secret)
  /\ url = constructorUrl(cfg.version)
  /\ defaultPair = constructorDefaultPair(cfg.defaultPair)
  /\ ncalls = 0
  /\ nfetch = 0
  /\ last = NoCall
  /\ promise = [i \in 1..MaxCalls |-> NoPromise]

Next ==
  \/ GetTicker
  \/ GetAllTickers
  \/ GetOrderBook
  \/ GetTrades
  \/ CreateAccount
  \/ GetBalances
  \/ GetTransactions
  \/ GetPendingTransactions
  \/ GetOrderList
  \/ PostOrder
  \/ PostMarketOrder
  \/ StopOrder
  \/ GetOrder
  \/ GetTradesList
  \/ GetReceiveAddress
  \/ CreateReceiveAddress
  \/ GetFeeInfo
  \/ GetWithdrawalRequests
  \/ RequestWithdrawal
  \/ GetWithdrawalStatus
  \/ CancelWithdrawalRequest
  \/ Send
  \/ CreateQuote
  \/ GetQuote
  \/ ExerciseQuote
  \/ DiscardQuote
  \/ \E i \in 1..MaxCalls : OnResponse(i)
  \/ \E i \in 1..MaxCalls : OnJson(i)
  \/ \E i \in 1..MaxCalls : OnTransportError(i)

Spec == Init /\ [][Next]_vars

(* ------------------- the executor on its own inputs -------------------- *)
\* the descriptors createRequest is applied to: every combination of an
\* absent or present query, body and verb
ExecQueries ==
  {NoObj, Obj(<<>>), Obj(<<K("pair", S("XBTZAR"))>>),
   Obj(<<K("pair", S("XBTZAR")), K("since", Undef)>>)}
ExecBodies == {NoObj, Obj(<<K("asset", S("XBT"))>>)}
ExecMethods == {Undef, Empty, S("GET"), S("POST"), S("PUT"), S("DELETE")}

CreateRequest ==
  \E q \in ExecQueries, d \in ExecBodies, m \in ExecMethods :
    LET desc == Request(url \o <<"/op">>, q, d, m)
    IN  Invoke("createRequest", desc, desc)

NextExec ==
  \/ CreateRequest
  \/ \E i \in 1..MaxCalls : OnResponse(i)
  \/ \E i \in 1..MaxCalls : OnJson(i)
  \/ \E i \in 1..MaxCalls : OnTransportError(i)

SpecExec == Init /\ [][NextExec]_vars

(* ------------------- the form encoder on its own inputs ----------------- *)
\* keys and string values of body payloads, with the characters that the
\* encoding has to escape
FormKeys == {<<"type">>, <<"a", "=", "b">>}
FormValues ==
  {<<>>, <<"BID">>, <<"x", "&", "y", "=", "z">>, <<"%", "2", "6">>,
   <<"a", " ", "b", "!">>, <<"foo", "@", "bar.com">>, <<"1", "/", "2", "?", ":">>}

\* the payloads: empty, one entry, or an entry for each key
FormPayloads ==
  {Obj(<<>>)}
  \cup { Obj(<< <<k, Str(v)>> >>) : k \in FormKeys, v \in FormValues }
  \cup { Obj(<< <<(<<"type">>), Str(v)>>, <<(<<"a", "=", "b">>), Str(w)>> >>) :
           v \in FormValues, w \in FormValues }

\* createRequest given a body payload alone
PostForm ==
  \E d \in FormPayloads :
    LET desc == Request(url \o <<"/op">>, NoObj, d, Undef)
    IN  Invoke("jsonToURLEncodedForm", desc, desc)

NextForm ==
  \/ PostForm
  \/ \E i \in 1..MaxCalls : OnResponse(i)
  \/ \E i \in 1..MaxCalls : OnJson(i)
  \/ \E i \in 1..MaxCalls : OnTransportError(i)

SpecForm == Init /\ [][NextForm]_vars

(* ======================= properties of the client ====================== *)
(* ---- a receiving end: splitting and percent-decoding what was sent ---- *)
RECURSIVE SplitOn(_, _)
\* the segments of s between occurrences of the atom sep
SplitOn(s, sep) ==
  IF \A i \in 1..Len(s) : s[i] # sep THEN <<s>>
  ELSE LET i == CHOOSE j \in 1..Len(s) : s[j] = sep /\ \A k \in 1..(j - 1) : s[k] # sep
       IN  <<SubSeq(s, 1, i - 1)>> \o SplitOn(SubSeq(s, i + 1, Len(s)), sep)

\* the character a two-digit escape stands for
Unescape(h1, h2) ==
  CASE h1 = "2" /\ h2 = "6" -> "&"
    [] h1 = "3" /\ h2 = "D" -> "="
    [] h1 = "2" /\ h2 = "5" -> "%"
    [] h1 = "2" /\ h2 = "0" -> " "
    [] h1 = "3" /\ h2 = "A" -> ":"
    [] h1 = "2" /\ h2 = "F" -> "/"
    [] h1 = "3" /\ h2 = "F" -> "?"
    [] h1 = "2" /\ h2 = "1" -> "!"
    [] h1 = "4" /\ h2 = "0" -> "@"
    [] OTHER -> "#"

RECURSIVE PercentDecode(_)
PercentDecode(s) ==
  IF s = <<>> THEN <<>>
  ELSE IF s[1] = "%" /\ Len(s) >= 3
    THEN <<Unescape(s[2], s[3])>> \o PercentDecode(SubSeq(s, 4, Len(s)))
  ELSE <<s[1]>> \o PercentDecode(Tail(s))

\* the decoded <<key, value>> pairs of a key=value&key=value string
DecodedPairs(s) ==
  IF s = <<>> THEN {}
  ELSE LET segs == SplitOn(s, "&")
       IN  { LET kv == SplitOn(segs[i], "=")
             IN  <<PercentDecode(kv[1]),
                   IF Len(kv) >= 2 THEN PercentDecode(kv[2]) ELSE <<>>,
                   Len(kv) - 1>> : i \in 1..Len(segs) }

\* the keys and the key / value pairs a receiver sees
WireKeys(s) == { p[1] : p \in DecodedPairs(s) }
WireHas(s, k, v) == \E p \in DecodedPairs(s) : p[1] = <<k>> /\ p[2] = v /\ p[3] = 1

\* the query string of a URL: what follows its first "?"
QueryOf(u) ==
  IF \A i \in 1..Len(u) : u[i] # "?" THEN <<>>
  ELSE LET i == CHOOSE j \in 1..Len(u) : u[j] = "?" /\ \A k \in 1..(j - 1) : u[k] # "?"
       IN  SubSeq(u, i + 1, Len(u))

\* what the last call put on the wire as query string and as body
LastQuery == QueryOf(last.req.url)
LastBody == last.req.body.s

(* ------------------------------------------------------------------------ *)
\* C1: a request without a body payload never carries a Content-Type header,
\* whatever calls were made on the instance before it.
ClaimC1_NoContentTypeWithoutBody ==
  (last.sent /\ ~last.desc.data.has) => "Content-Type" \notin DOMAIN last.req.headers

\* C2: the instance's header template, default pair and base URL stay exactly
\* what the constructor set, after any sequence of method calls.
ClaimC2_InstanceImmutable ==
  /\ headers = constructorHeaders(cfg.key, cfg.secret)
  /\ defaultPair = constructorDefaultPair(cfg.defaultPair)
  /\ url = constructorUrl(cfg.version)

\* C3: the verb of an outgoing request is the explicit verb when one is
\* given (also with a body), else POST with a body, else GET.
ClaimC3_Verb ==
  last.sent =>
    last.req.method =
      (IF last.desc.method.t = "str" /\ last.desc.method.s # <<>>
         THEN last.desc.method.s
       ELSE IF last.desc.data.has THEN <<"POST">> ELSE <<"GET">>)

\* C3 witness: an explicit DELETE given together with a body went out as DELETE
WitnessC3_ExplicitVerbWithBody ==
  /\ last.sent
  /\ last.desc.method = S("DELETE")
  /\ last.desc.data.has
  /\ last.req.method = <<"DELETE">>

(* ------------------------------------------------------------------------ *)
\* the transport answered call i with a status outside 200..299
HttpFailed(i) == promise[i].status # 0 /\ ~ResOk(promise[i].status)

\* C4 as stated: a non-2xx response rejects with an error whose status field
\* is the numeric status code and whose message is the status text, and the
\* JSON accessor is never invoked.
ClaimC4_StatusAndMessageFields ==
  \A i \in 1..MaxCalls :
    HttpFailed(i) =>
      /\ promise[i].st = "rejected"
      /\ promise[i].out.status = Num(promise[i].status * 1000)
      /\ promise[i].out.message = promise[i].statusText
      /\ promise[i].jsonCalls = 0

\* C4 as amended: a non-2xx response rejects with an Error that has no status
\* field and whose message is "<status>: <statusText>", and the JSON accessor
\* is never invoked.
ClaimC4_ErrorMessage ==
  \A i \in 1..MaxCalls :
    HttpFailed(i) =>
      /\ promise[i].st = "rejected"
      /\ promise[i].out.kind = "Error"
      /\ promise[i].out.status = Undef
      /\ promise[i].out.message =
           <<ToString(promise[i].status), ":", " ">> \o promise[i].statusText
      /\ promise[i].jsonCalls = 0

WitnessC4_Rejected401 ==
  \E i \in 1..MaxCalls :
    /\ HttpFailed(i)
    /\ promise[i].status = 401
    /\ promise[i].st = "rejected"

(* ------------------------------------------------------------------------ *)
\* C5: after a 2xx response the returned promise resolves with exactly the
\* value the response's JSON accessor produced.
ClaimC5_ResolvesWithJson ==
  \A i \in 1..MaxCalls :
    (ResOk(promise[i].status) /\ promise[i].jsonVal # "") =>
      /\ promise[i].st = "resolved"
      /\ promise[i].jsonCalls = 1
      /\ promise[i].out.kind = "value"
      /\ promise[i].out.v = promise[i].jsonVal

WitnessC5_Resolved ==
  \E i \in 1..MaxCalls :
    /\ promise[i].st = "resolved"
    /\ promise[i].jsonVal = "j2"
    /\ last.op = "getTicker"
    /\ last.id = i

(* ------------------------------------------------------------------------ *)
\* the arguments each operation documents as required
ReqArgs(op) ==
  CASE op = "createAccount" -> {"name", "currency"}
    [] op \in {"getTransactions", "getPendingTransactions", "stopOrder", "getOrder",
               "getWithdrawalStatus", "cancelWithdrawalRequest", "getQuote",
               "exerciseQuote", "discardQuote"} -> {"id"}
    [] op = "postOrder" -> {"type", "volume", "price"}
    [] op = "postMarketOrder" -> {"type", "volume"}
    [] op \in {"getReceiveAddress", "createReceiveAddress"} -> {"asset"}
    [] op = "requestWithdrawal" -> {"type", "amount"}
    [] op = "send" -> {"amount", "currency", "address"}
    [] op = "createQuote" -> {"type", "amount"}
    [] OTHER -> {}

\* the operations whose type argument is one of a closed set, and the set
TypeOps == {"postOrder", "postMarketOrder", "createQuote"}
Members(op) == IF op = "postOrder" THEN {"BID", "ASK"} ELSE {"BUY", "SELL"}

\* the spellings of a member that differ from it in case only
Variants(m) ==
  CASE m = "BID" -> {"bid", "Bid", "BID"}
    [] m = "ASK" -> {"ask", "Ask", "ASK"}
    [] m = "BUY" -> {"buy", "Buy", "BUY"}
    [] m = "SELL" -> {"sell", "Sell", "SELL"}
    [] OTHER -> {}

\* the member of op's set that v is a case variant of, "" when there is none
TypeMember(op, v) ==
  IF v.t = "str" /\ Len(v.s) = 1 /\ \E m \in Members(op) : v.s[1] \in Variants(m)
    THEN CHOOSE m \in Members(op) : v.s[1] \in Variants(m)
    ELSE ""

Missing(v) == v = Undef \/ v = Empty

\* the last call lacked a required argument or gave a type outside the set
LastFailsArgCheck ==
  \/ \E a \in ReqArgs(last.op) : Missing(last.args[a])
  \/ last.op \in TypeOps /\ TypeMember(last.op, last.args.type) = ""

\* C6: a call with a required argument absent or empty, or with an enum
\* argument outside its closed set, fails synchronously and makes no
\* transport call.
ClaimC6_ArgumentErrorNoTransport ==
  LastFailsArgCheck => (last.threw /\ ~last.sent /\ last.id = 0)

\* C6 as an action: such a call leaves the count of transport calls alone
ClaimC6_NoFetchStep ==
  [][(ncalls' = ncalls + 1 /\ LastFailsArgCheck') => nfetch' = nfetch]_vars

WitnessC6_SendWithoutAddress ==
  /\ last.op = "send"
  /\ Truthy(last.args.amount) /\ Truthy(last.args.currency)
  /\ Missing(last.args.address)
  /\ last.threw

(* ------------------------------------------------------------------------ *)
\* C7: a query key whose value is undefined does not appear in the query
\* string of the outgoing URL; a key with a present value appears with it.
ClaimC7_QueryKeys ==
  (last.sent /\ last.desc.query.has) =>
    \A i \in 1..Len(last.desc.query.kv) :
      LET k == last.desc.query.kv[i][1]
          v == last.desc.query.kv[i][2]
      IN  IF v = Undef
            THEN k \notin WireKeys(LastQuery)
            ELSE \E p \in DecodedPairs(LastQuery) :
                   p[1] = k /\ p[2] = ToStr(v) /\ p[3] = 1

WitnessC7_UndefinedDropped ==
  /\ last.sent
  /\ last.op = "getTrades"
  /\ last.args.since = Undef
  /\ WireKeys(LastQuery) = {<<"pair">>}

(* ------------------------------------------------------------------------ *)
Supplied(v) == v.t = "str" /\ v.s # <<>>

\* the default pair the client was configured with
ConfiguredPair == IF Supplied(cfg.defaultPair) THEN cfg.defaultPair.s ELSE <<"XBTZAR">>

\* the pair the last call is to send
ExpectedPair == IF Supplied(last.args.pair) THEN last.args.pair.s ELSE ConfiguredPair

\* where the last call carries its fields
LastWire == IF last.desc.data.has THEN LastBody ELSE LastQuery

PairOpsDefaulting ==
  {"getTicker", "getOrderBook", "getTrades", "postOrder", "postMarketOrder",
   "getTradesList", "getFeeInfo", "createQuote"}

\* C8 as stated: each of the nine pair operations sends the configured
\* default pair when the pair argument is empty or absent, else the given one.
ClaimC8_AllPairOpsDefault ==
  (last.sent /\ last.op \in PairOpsDefaulting \cup {"getOrderList"}) =>
    WireHas(LastWire, "pair", ExpectedPair)

\* C8 as amended: the eight operations other than getOrderList do so;
\* getOrderList sends the pair argument as given and no pair when it is absent.
ClaimC8_PairDefault ==
  /\ (last.sent /\ last.op \in PairOpsDefaulting) =>
       /\ WireHas(LastWire, "pair", ExpectedPair)
       /\ Cardinality({p \in DecodedPairs(LastWire) : p[1] = <<"pair">>}) = 1
  /\ (last.sent /\ last.op = "getOrderList") =>
       IF last.args.pair = Undef
         THEN <<"pair">> \notin WireKeys(LastWire)
         ELSE WireHas(LastWire, "pair", ToStr(last.args.pair))

WitnessC8_ConfiguredDefaultSent ==
  /\ last.sent
  /\ last.op = "getFeeInfo"
  /\ Missing(last.args.pair)
  /\ cfg.defaultPair = S("ETHZAR")
  /\ WireHas(LastWire, "pair", <<"ETHZAR">>)

(* ------------------------------------------------------------------------ *)
\* C9: postOrder, postMarketOrder and createQuote upper-case the type before
\* validating it: a case variant of a member of the set is accepted and sent
\* in upper case, anything else fails locally with no transport call.
ClaimC9_TypeUpperCased ==
  last.op \in TypeOps =>
    LET m == TypeMember(last.op, last.args.type)
    IN  IF m = ""
          THEN last.threw /\ ~last.sent
          ELSE /\ (\A a \in ReqArgs(last.op) \ {"type"} : Truthy(last.args[a]))
                    => last.sent
               /\ last.sent => WireHas(LastBody, "type", <<m>>)

WitnessC9_LowerCaseBidSent ==
  /\ last.op = "postOrder"
  /\ last.args.type = S("bid")
  /\ last.sent
  /\ WireHas(LastBody, "type", <<"BID">>)

(* ------------------------------------------------------------------------ *)
\* the index of a base64 character
B64Index(c) == (CHOOSE i \in 1..64 : B64Chars[i] = c) - 1

\* the character with a given code
CharOf(n) ==
  CASE n = 58 -> ":"
    [] n = 107 -> "k"
    [] n = 115 -> "s"
    [] n = 49 -> "1"
    [] n = 75 -> "K"
    [] OTHER -> "?"

RECURSIVE Base64Decode(_)
\* the characters a base64 text stands for
Base64Decode(s) ==
  IF Len(s) < 4 THEN <<>>
  ELSE LET a == B64Index(s[1])
           b == B64Index(s[2])
           c1 == CharOf(a * 4 + (b \div 16))
       IN  IF s[3] = "=" THEN <<c1>>
           ELSE LET c == B64Index(s[3])
                    c2 == CharOf((b % 16) * 16 + (c \div 4))
                IN  IF s[4] = "=" THEN <<c1, c2>>
                    ELSE <<c1, c2, CharOf((c % 4) * 64 + B64Index(s[4]))>>
                         \o Base64Decode(SubSeq(s, 5, Len(s)))

\* C10: every outgoing request carries Accept: application/json and
\* Accept-Charset: utf-8, and carries Authorization: Basic base64(key:secret)
\* exactly when both key and secret were given to the constructor.
ClaimC10_Headers ==
  last.sent =>
    LET h == last.req.headers
    IN  /\ "Accept" \in DOMAIN h /\ h["Accept"] = <<"application/json">>
        /\ "Accept-Charset" \in DOMAIN h /\ h["Accept-Charset"] = <<"utf-8">>
        /\ ("Authorization" \in DOMAIN h) <=> (Supplied(cfg.key) /\ Supplied(cfg.secret))
        /\ "Authorization" \in DOMAIN h =>
             /\ Len(h["Authorization"]) > 2
             /\ SubSeq(h["Authorization"], 1, 2) = <<"Basic", " ">>
             /\ Base64Decode(SubSeq(h["Authorization"], 3, Len(h["Authorization"])))
                  = cfg.key.s \o <<":">> \o cfg.secret.s

WitnessC10_Authorized ==
  /\ last.sent
  /\ Supplied(cfg.key) /\ Supplied(cfg.secret)
  /\ "Authorization" \in DOMAIN last.req.headers

(* ------------------------------------------------------------------------ *)
Settled(p) == p.st \in {"resolved", "rejected"}

\* a promise holds one outcome of one kind, and none before it is settled
OneOutcome(p) ==
  /\ p.st = "resolved" => (p.out.kind = "value" /\ p.out.v # "" /\ p.out.message = <<>>)
  /\ p.st = "rejected" =>
       (p.out.kind \in {"Error", "FetchError", "SyntaxError"} /\ p.out.v = "")
  /\ ~Settled(p) => p.out = NoOut

\* C11: the promise of a call is settled once: it is resolved with a value or
\* rejected with an error, never both, and once settled it never changes.
ClaimC11_SettledOnce ==
  [][\A i \in 1..MaxCalls :
       /\ Settled(promise[i]) => promise'[i] = promise[i]
       /\ OneOutcome(promise'[i])]_vars

\* C11 witness: one call resolved and another rejected, the second settling
\* while the first was already settled
WitnessC11_TwoSettled ==
  \E i, j \in 1..MaxCalls :
    /\ promise[i].st = "resolved"
    /\ promise[j].st = "rejected"

(* ------------------------------------------------------------------------ *)
\* C12: a call that passes validation makes exactly one transport call; when
\* that call fails in the transport, the promise rejects with the transport's
\* error as it is and no further transport call is made.
ClaimC12_OneFetchNoRetry ==
  /\ nfetch = Cardinality({i \in 1..MaxCalls : promise[i].st # "none"})
  /\ last.sent <=> (last.op # "" /\ ~last.threw)
  /\ \A i \in 1..MaxCalls :
       promise[i].fetchErr # "" =>
         /\ promise[i].st = "rejected"
         /\ promise[i].out.kind = "FetchError"
         /\ promise[i].out.message = <<promise[i].fetchErr>>
         /\ promise[i].out.status = Undef
         /\ promise[i].jsonCalls = 0

WitnessC12_TransportFailed ==
  \E i \in 1..MaxCalls :
    /\ promise[i].fetchErr = "ECONNREFUSED"
    /\ promise[i].st = "rejected"
    /\ nfetch = 1

(* ------------------------------------------------------------------------ *)
\* C13: the form encoding of a body payload of string values round-trips:
\* splitting the body on "&" and "=" and percent-decoding gives back exactly
\* the payload's key / value pairs, none lost, added or merged.  (An empty
\* body carries no pair.)
ClaimC13_FormRoundTrip ==
  (/\ last.sent
   /\ last.desc.data.has
   /\ \A i \in 1..Len(last.desc.data.kv) : last.desc.data.kv[i][2].t = "str") =>
    LET kv == last.desc.data.kv
        dec == DecodedPairs(LastBody)
    IN  /\ { <<p[1], p[2]>> : p \in dec } = { <<kv[i][1], kv[i][2].s>> : i \in 1..Len(kv) }
        /\ \A p \in dec : p[3] = 1
        /\ Cardinality(dec) = Len(kv)
        /\ LastBody # <<>> => Len(SplitOn(LastBody, "&")) = Len(kv)

WitnessC13_EscapedPairs ==
  /\ last.sent
  /\ last.op = "jsonToURLEncodedForm"
  /\ last.desc.data.kv =
       << <<(<<"type">>), Str(<<"x", "&", "y", "=", "z">>)>>,
          <<(<<"a", "=", "b">>), Str(<<"%", "2", "6">>)>> >>
  /\ LastBody = <<"type", "=", "x", "%", "2", "6", "y", "%", "3", "D", "z", "&",
                  "a", "%", "3", "D", "b", "=", "%", "2", "5", "2", "6">>

(* ------------------------------------------------------------------------ *)
\* the query mapping of the last call has a key with a present value
LastQueryNonEmpty ==
  /\ last.desc.query.has
  /\ \E i \in 1..Len(last.desc.query.kv) : last.desc.query.kv[i][2] # Undef

\* C14: the outgoing URL contains a "?" exactly when the query mapping is
\* non-empty after dropping the keys with absent values; otherwise the URL is
\* the operation's URL and nothing more.
ClaimC14_QuestionMarkIffQuery ==
  last.sent =>
    /\ (\E i \in 1..Len(last.req.url) : last.req.url[i] = "?") <=> LastQueryNonEmpty
    /\ ~LastQueryNonEmpty => last.req.url = last.desc.url

(* ------------------------------------------------------------------------ *)
\* the body of the last call carries key k exactly when argument v was
\* supplied, and then with v's value
OptionalField(k, v) ==
  /\ (<<k>> \in WireKeys(LastBody)) <=> Supplied(v)
  /\ Supplied(v) => WireHas(LastBody, k, v.s)

\* C15: requestWithdrawal's body has beneficiary_id exactly when a
\* beneficiaryId was supplied, send's body has description (message) exactly
\* when a description (message) was supplied; the required fields are always
\* there.
ClaimC15_OptionalBodyFields ==
  /\ (last.sent /\ last.op = "requestWithdrawal") =>
       /\ OptionalField("beneficiary_id", last.args.beneficiaryId)
       /\ WireHas(LastBody, "type", ToStr(last.args.type))
       /\ WireHas(LastBody, "amount", ToStr(last.args.amount))
  /\ (last.sent /\ last.op = "send") =>
       /\ OptionalField("description", last.args.description)
       /\ OptionalField("message", last.args.message)
       /\ WireHas(LastBody, "amount", ToStr(last.args.amount))
       /\ WireHas(LastBody, "currency", ToStr(last.args.currency))
       /\ WireHas(LastBody, "address", ToStr(last.args.address))

WitnessC15_EmptyBeneficiaryLeftOut ==
  /\ last.sent
  /\ last.op = "requestWithdrawal"
  /\ last.args.beneficiaryId = Empty
  /\ WireKeys(LastBody) = {<<"type">>, <<"amount">>}

(* ------------------------------------------------------------------------ *)
\* the since value the last call is to send for a since argument that is no
\* Date: none when it is absent, else the argument as it is
SinceUnchanged ==
  IF last.args.since = Undef
    THEN <<"since">> \notin WireKeys(LastQuery)
    ELSE WireHas(LastQuery, "since", ToStr(last.args.since))

\* C16: for a Date, getTrades sends since in seconds (milliseconds / 1000)
\* and getTradesList in milliseconds; any other since is sent unchanged.
\* (Num counts thousandths: ms thousandths are ms / 1000 seconds.)
ClaimC16_SinceUnits ==
  /\ (last.sent /\ last.op = "getTrades") =>
       IF last.args.since.t = "date"
         THEN WireHas(LastQuery, "since", NumToString(last.args.since.ms))
         ELSE SinceUnchanged
  /\ (last.sent /\ last.op = "getTradesList") =>
       IF last.args.since.t = "date"
         THEN WireHas(LastQuery, "since", NumToString(last.args.since.ms * 1000))
         ELSE SinceUnchanged

WitnessC16_MillisecondsInTradesList ==
  /\ last.sent
  /\ last.op = "getTradesList"
  /\ last.args.since = DateV(1500)
  /\ WireHas(LastQuery, "since", <<"1500">>)

\* the same Date through getTrades goes out as 1.5
WitnessC16_SecondsInTrades ==
  /\ last.sent
  /\ last.op = "getTrades"
  /\ last.args.since = DateV(1500)
  /\ WireHas(LastQuery, "since", <<"1", ".", "5">>)

(* ------------------------------------------------------------------------ *)
\* C17: a postMarketOrder request carries the volume in exactly one field:
\* counter_volume and no base_volume for BUY, base_volume and no
\* counter_volume for SELL.
ClaimC17_OneVolumeField ==
  (last.sent /\ last.op = "postMarketOrder") =>
    LET m == TypeMember("postMarketOrder", last.args.type)
        keys == WireKeys(LastBody)
    IN  /\ m \in {"BUY", "SELL"}
        /\ m = "BUY" =>
             /\ WireHas(LastBody, "counter_volume", ToStr(last.args.volume))
             /\ <<"base_volume">> \notin keys
        /\ m = "SELL" =>
             /\ WireHas(LastBody, "base_volume", ToStr(last.args.volume))
             /\ <<"counter_volume">> \notin keys

WitnessC17_SellBaseVolume ==
  /\ last.sent
  /\ last.op = "postMarketOrder"
  /\ last.args.type = S("Sell")
  /\ WireHas(LastBody, "base_volume", <<"1.5">>)
  /\ <<"counter_volume">> \notin WireKeys(LastBody)

====
